---- MODULE Spec2Model ----
(***************************************************************************)
(* express-api-contracts: the request pipeline that registerContracts      *)
(* installs on an Express app (src/src/express/register.ts, lines 61-243)  *)
(* and the wrapper useMiddleware puts around every middleware contract     *)
(* (src/unnamed/part_002, lines 50-196).                                   *)
(*                                                                         *)
(* A request is run the way Node runs it: a synchronous call stack (the    *)
(* wrapper of middleware i calls its handler, the handler calls            *)
(* next.success, Express calls the wrapper of middleware i+1 inside that   *)
(* call, ...) and a queue of continuations, one per "await", that run once *)
(* the stack is empty.                                                     *)
(***************************************************************************)
EXTENDS Integers, Sequences, FiniteSets, TLC

VARIABLES
    apps,   \* per Express app: the keys registerContracts has seen, the routes it installed
    rq,     \* the request being served: its parts, req.context, res, stack, continuations, history
    doc,    \* the last call of generateOpenApi: its arguments and the document it returned
    reqs    \* two requests served at the same time, each a record like rq

vars == <<apps, rq, doc, reqs>>

(***************************************************************************)
(* JavaScript values.  Every value is a record [t, v]; numbers keep their  *)
(* digits as a string so that the string "3" and the number 3 differ only  *)
(* in the tag, as they do for zod.                                         *)
(***************************************************************************)
S(x) == [t |-> "string", v |-> x]
N(x) == [t |-> "number", v |-> x]
O(f) == [t |-> "object", v |-> f]
A(s) == [t |-> "array", v |-> s]
B(x) == [t |-> "boolean", v |-> x]
Undefined == [t |-> "undefined", v |-> ""]
EmptyObject == O(<<>>)

IsObject(x) == x.t = "object"
Keys(x) == DOMAIN x.v

\* Mutant of Spread: a's value where both have the key.
SpreadKeepFirst(a, b) ==
    O([k \in Keys(a) \cup Keys(b) |-> IF k \in Keys(a) THEN a.v[k] ELSE b.v[k]])

\* {...a, ...b}: the keys of both, b's value where both have the key.
Spread(a, b) ==
    O([k \in Keys(a) \cup Keys(b) |-> IF k \in Keys(b) THEN b.v[k] ELSE a.v[k]])

\* Array.prototype.join(".") of a path of string keys.
RECURSIVE Join(_)
Join(path) ==
    IF path = <<>> THEN ""
    ELSE IF Len(path) = 1 THEN path[1]
    ELSE path[1] \o "." \o Join(Tail(path))

(***************************************************************************)
(* zod.  A schema is z.object(shape) with the shape an ordered list of     *)
(* [key, ty]; ty is "string" (z.string()), "number" (z.number()) or        *)
(* "coerce" (z.coerce.number()) or "optional" (z.string().optional()).     *)
(* safeParse reports one issue per failing                                 *)
(* key, in the order of the shape, and on success returns only the keys of *)
(* the shape (unknown keys are stripped), coerced.                         *)
(***************************************************************************)
NoSchema == [kind |-> "none", shape |-> <<>>]
NullSchema == [kind |-> "null", shape |-> <<>>]
ZObject(shape) == [kind |-> "object", shape |-> shape]
Field(k, ty) == [key |-> k, ty |-> ty]

Issue(path, message) == [path |-> path, message |-> message]

IsNumeric(x) == x \in {"0", "1", "2", "3", "10", "494"}

\* The value at key of an object, undefined when the key is absent.
Get(obj, key) == IF key \in Keys(obj) THEN obj.v[key] ELSE Undefined

\* z.string() / z.number() / z.coerce.number() on one value: <<ok, data, message>>.
ParseField(ty, x) ==
    CASE ty = "string" ->
            IF x.t = "string" THEN <<TRUE, x, "">>
            ELSE <<FALSE, Undefined, "Invalid input: expected string, received " \o x.t>>
      [] ty = "number" ->
            IF x.t = "number" THEN <<TRUE, x, "">>
            ELSE <<FALSE, Undefined, "Invalid input: expected number, received " \o x.t>>
      [] ty = "optional" ->
            IF x.t \in {"string", "undefined"} THEN <<TRUE, x, "">>
            ELSE <<FALSE, Undefined, "Invalid input: expected string, received " \o x.t>>
      [] ty = "coerce" ->
            IF x.t = "number" \/ (x.t = "string" /\ IsNumeric(x.v)) THEN <<TRUE, N(x.v), "">>
            ELSE <<FALSE, Undefined, "Invalid input: expected number, received NaN">>

RECURSIVE ShapeIssues(_, _)
ShapeIssues(shape, obj) ==
    IF shape = <<>> THEN <<>>
    ELSE LET f == Head(shape)
             r == ParseField(f.ty, Get(obj, f.key))
         IN  (IF r[1] THEN <<>> ELSE <<Issue(<<f.key>>, r[3])>>)
             \o ShapeIssues(Tail(shape), obj)

ShapeKeys(shape) == {shape[j].key : j \in 1..Len(shape)}
ShapeType(shape, k) == (CHOOSE j \in 1..Len(shape) : shape[j].key = k)

\* schema.safeParse(value) for a z.object schema.
SafeParse(schema, value) ==
    IF ~IsObject(value)
    THEN [success |-> FALSE, data |-> Undefined,
          issues |-> <<Issue(<<>>, "Invalid input: expected object, received " \o value.t)>>]
    ELSE LET issues == ShapeIssues(schema.shape, value)
         IN  IF issues # <<>>
             THEN [success |-> FALSE, data |-> Undefined, issues |-> issues]
             ELSE [success |-> TRUE,
                   data |-> O([k \in ShapeKeys(schema.shape) |->
                                ParseField(schema.shape[ShapeType(schema.shape, k)].ty,
                                           Get(value, k))[2]]),
                   issues |-> <<>>]

(***************************************************************************)
(* The contracts and middleware contracts the application declares.  They  *)
(* follow the fixtures of the repository's tests: a middleware that        *)
(* validates a header, one that validates a body and a query, one without  *)
(* schemas; a route with all four request parts, a route behind a chain of *)
(* context-providing middlewares, a route behind validating middlewares.   *)
(***************************************************************************)
ChainLen == 1          \* number of middlewares in front of getProfile
MaxRegisterCalls == 1  \* calls of registerContracts on one app

Request(b, h, qy, p) == [body |-> b, headers |-> h, query |-> qy, params |-> p]
NoRequest == Request(NoSchema, NoSchema, NoSchema, NoSchema)

AuthHeaders == ZObject(<<Field("authorization", "string")>>)
FooBar == ZObject(<<Field("foo", "string"), Field("bar", "number")>>)
IdQuery == ZObject(<<Field("id", "string")>>)
UserParams == ZObject(<<Field("userId", "coerce")>>)
UserSchema == ZObject(<<Field("id", "number"), Field("name", "string")>>)
ListQuery == ZObject(<<Field("limit", "optional"), Field("id", "string")>>)
ApiKeyHeaders == ZObject(<<Field("X-Api-Key", "string")>>)
ErrorSchema == ZObject(<<Field("error", "string")>>)

MiddlewareNames == {"plain", "auth", "multi"}
Middlewares ==
    [m \in MiddlewareNames |->
        CASE m = "plain" -> [name |-> m, request |-> NoRequest]
          [] m = "auth"  -> [name |-> m, request |-> Request(NoSchema, AuthHeaders, NoSchema, NoSchema)]
          [] m = "multi" -> [name |-> m, request |-> Request(FooBar, NoSchema, IdQuery, NoSchema)]]

StdResponses == (200 :> UserSchema) @@ (204 :> NullSchema)

ContractNames ==
    {"updateUser", "getProfile", "createPost", "replaceUser", "deleteUser", "listUsers"}
Contracts ==
    [c \in ContractNames |->
        CASE c = "updateUser" ->
                [name |-> c, method |-> "put", path |-> "/users/:userId",
                 request |-> Request(FooBar, AuthHeaders, IdQuery, UserParams),
                 responses |-> StdResponses, middlewares |-> <<>>]
          [] c = "getProfile" ->
                [name |-> c, method |-> "get", path |-> "/profile",
                 request |-> NoRequest,
                 responses |-> StdResponses,
                 middlewares |-> [j \in 1..ChainLen |-> "plain"]]
          [] c = "createPost" ->
                [name |-> c, method |-> "post", path |-> "/users/:userId/posts",
                 request |-> Request(NoSchema, NoSchema, NoSchema, UserParams),
                 responses |-> StdResponses,
                 middlewares |-> <<"auth", "multi">>]
          \* a second contract for the method and path of updateUser
          [] c = "replaceUser" ->
                [name |-> c, method |-> "put", path |-> "/users/:userId",
                 request |-> NoRequest,
                 responses |-> StdResponses,
                 middlewares |-> <<"plain">>]
          [] c = "deleteUser" ->
                [name |-> c, method |-> "delete", path |-> "/users/:userId",
                 request |-> Request(NoSchema, NoSchema, NoSchema, UserParams),
                 responses |-> StdResponses, middlewares |-> <<>>]
          [] c = "listUsers" ->
                [name |-> c, method |-> "get", path |-> "/users",
                 request |-> Request(NoSchema, ApiKeyHeaders, ListQuery, NoSchema),
                 responses |-> StdResponses @@ (404 :> ErrorSchema), middlewares |-> <<>>]]

(***************************************************************************)
(* What a client may send, what a middleware handler may pass to           *)
(* next.success / next.error or send itself, what a contract handler may   *)
(* return or throw.                                                        *)
(***************************************************************************)
ValidBody == O(("foo" :> S("x")) @@ ("bar" :> N("1")) @@ ("extra" :> S("y")))
BadBody == O("foo" :> N("1"))
ReqBodies == {Undefined, ValidBody, BadBody}
ReqHeaders == {EmptyObject, O(("authorization" :> S("Bearer ABC123")) @@ ("host" :> S("localhost")))}
ReqQueries == {EmptyObject, O("id" :> S("123"))}
ReqParams == {O("userId" :> S("3")), O("userId" :> S("abc"))}

Contexts == {Undefined, O(("username" :> S("nidal")) @@ ("dob" :> S("2003"))),
             O("username" :> S("overridden"))}
MwErrors == {[status |-> 401, body |-> O("error" :> S("Unauthorized"))]}
MwSends == {[status |-> 200, body |-> O("page" :> S("cached"))]}

Err(msg) == [t |-> "Error", v |-> msg]
ZodErr(issues) == [t |-> "ZodError", v |-> issues]
HeadersSentError == Err("Cannot set headers after they are sent to the client")
MwThrown == {Err("Middleware failure"), S("oops")}
HandlerThrown == {Err("Handler crash"), S("oops"),
                  ZodErr(<<Issue(<<"inner", "field">>, "Invalid input")>>)}

NoResult == [defined |-> FALSE, status |-> 0, hasBody |-> FALSE, body |-> Undefined]
Result(status, body) == [defined |-> TRUE, status |-> status, hasBody |-> TRUE, body |-> body]
StatusOnly(status) == [defined |-> TRUE, status |-> status, hasBody |-> FALSE, body |-> Undefined]
GoodUser == O(("id" :> N("1")) @@ ("name" :> S("Alice")) @@ ("password" :> S("secret")))
BadUser == O("id" :> S("1"))
\* status 0 stands for a result object without a (truthy) status.
HandlerResults ==
    {NoResult, Result(0, GoodUser), Result(200, GoodUser), Result(200, BadUser),
     Result(200, Undefined), StatusOnly(200), StatusOnly(204), Result(204, GoodUser),
     Result(204, Undefined), Result(404, GoodUser)}
HandlerOutcomes ==
    {[k |-> "return", result |-> r, thrown |-> Undefined] : r \in HandlerResults}
    \cup {[k |-> "throw", result |-> NoResult, thrown |-> e] : e \in HandlerThrown}
    \cup {[k |-> "reject", result |-> NoResult, thrown |-> Err("Handler crash")]}

StatusText(s) ==
    CASE s = 200 -> "200" [] s = 204 -> "204" [] s = 400 -> "400" [] s = 401 -> "401"
      [] s = 404 -> "404" [] s = 500 -> "500" [] OTHER -> "0"

(***************************************************************************)
(* Request validation: one entry {path, message} per issue, the path       *)
(* prefixed with the name of the request part.                             *)
(***************************************************************************)
ErrorEntry(prefix, i) == [path |-> prefix \o "." \o Join(i.path), message |-> i.message]

\* if (schema) { r = schema.safeParse(value); if (!r.success) errors.push(...r.error.issues.map(...)) }
PartErrors(schema, value, prefix) ==
    IF schema.kind = "none" THEN <<>>
    ELSE LET r == SafeParse(schema, value)
         IN  IF r.success THEN <<>>
             ELSE [j \in 1..Len(r.issues) |-> ErrorEntry(prefix, r.issues[j])]

\* Mutant of ParsedPart: the request's own value is handed on.
ParsedPartRaw(schema, value) == value

\* schema?.safeParse(value)?.data
ParsedPart(schema, value) ==
    IF schema.kind = "none" THEN Undefined ELSE SafeParse(schema, value).data

\* Mutants of ContractErrors: the params schema is not validated; the first failing
\* part ends the validation.
ContractErrorsNoParams(c, q) ==
    PartErrors(c.request.body, q.body, "body")
    \o PartErrors(c.request.headers, q.headers, "headers")
    \o PartErrors(c.request.query, q.query, "query")

ContractErrorsFirstPart(c, q) ==
    LET b == PartErrors(c.request.body, q.body, "body")
        h == PartErrors(c.request.headers, q.headers, "headers")
        qy == PartErrors(c.request.query, q.query, "query")
        p == PartErrors(c.request.params, q.params, "params")
    IN  IF b # <<>> THEN b ELSE IF h # <<>> THEN h ELSE IF qy # <<>> THEN qy ELSE p

ContractErrors(c, q) ==
    PartErrors(c.request.body, q.body, "body")
    \o PartErrors(c.request.headers, q.headers, "headers")
    \o PartErrors(c.request.query, q.query, "query")
    \o PartErrors(c.request.params, q.params, "params")

\* Mutant of MiddlewareErrors: the query schema is not validated.
MiddlewareErrorsNoQuery(m, q) ==
    PartErrors(m.request.body, q.body, "body")
    \o PartErrors(m.request.headers, q.headers, "headers")

MiddlewareErrors(m, q) ==
    PartErrors(m.request.body, q.body, "body")
    \o PartErrors(m.request.headers, q.headers, "headers")
    \o PartErrors(m.request.query, q.query, "query")

\* The JSON bodies the wrappers send.
EntryJson(e) == O(("path" :> S(e.path)) @@ ("message" :> S(e.message)))
ErrorsBody(errors) == O("errors" :> A([j \in 1..Len(errors) |-> EntryJson(errors[j])]))
ErrorBody(msg) == O("error" :> S(msg))
NoBody == [t |-> "none", v |-> ""]


(***************************************************************************)
(* registerContracts(app, contracts).  registeredContractsMap holds one    *)
(* set of "method:path" keys per app; a contract whose key is in the set   *)
(* is skipped, any other is added to the set and gets a route.             *)
(***************************************************************************)
AppIds == {"A", "B"}
\* registered: the set of keys; routes: the contracts that got a route, in the order
\* of app[method](...); warned: the contracts skipped with console.warn; asked: the
\* contracts passed to registerContracts so far, in order; calls: the number of calls.
NewApp == [registered |-> {}, routes |-> <<>>, warned |-> <<>>, asked |-> <<>>, calls |-> 0]

RouteKey(c) == c.method \o ":" \o c.path

\* Mutant of RegisterLoop: skipping a contract forgets its key.
RECURSIVE RegisterLoopForgets(_, _)
RegisterLoopForgets(app, list) ==
    IF list = <<>> THEN app
    ELSE LET key == RouteKey(Contracts[Head(list)])
             seen == [app EXCEPT !.asked = Append(@, Head(list))]
         IN  IF key \in app.registered
             THEN RegisterLoopForgets([seen EXCEPT !.warned = Append(@, Head(list)),
                                                   !.registered = @ \ {key}], Tail(list))
             ELSE RegisterLoopForgets([seen EXCEPT !.registered = @ \cup {key},
                                                   !.routes = Append(@, Head(list))],
                                      Tail(list))

\* Mutant of RegisterLoop: no contract is skipped.
RECURSIVE RegisterLoopNoSkip(_, _)
RegisterLoopNoSkip(app, list) ==
    IF list = <<>> THEN app
    ELSE LET key == RouteKey(Contracts[Head(list)])
         IN  RegisterLoopNoSkip([app EXCEPT !.asked = Append(@, Head(list)),
                                            !.registered = @ \cup {key},
                                            !.routes = Append(@, Head(list))],
                                Tail(list))

RECURSIVE RegisterLoop(_, _)
RegisterLoop(app, list) ==
    IF list = <<>> THEN app
    ELSE LET key == RouteKey(Contracts[Head(list)])
             seen == [app EXCEPT !.asked = Append(@, Head(list))]
         IN  IF key \in app.registered
             THEN RegisterLoop([seen EXCEPT !.warned = Append(@, Head(list))], Tail(list))
             ELSE RegisterLoop([seen EXCEPT !.registered = @ \cup {key},
                                            !.routes = Append(@, Head(list))],
                               Tail(list))

\* Express: the first route installed for the method and path serves the request.
FirstRoute(app, key) ==
    app.routes[CHOOSE j \in 1..Len(app.routes) :
                  /\ RouteKey(Contracts[app.routes[j]]) = key
                  /\ \A k \in 1..(j - 1) : RouteKey(Contracts[app.routes[k]]) # key]
RoutedKeys(app) == {RouteKey(Contracts[app.routes[j]]) : j \in 1..Len(app.routes)}

\* The lists of contracts the application registers.
StartupLists == {<<"updateUser", "getProfile", "createPost">>}

(***************************************************************************)
(* The request.  stack is the synchronous call stack (its last element is  *)
(* the running frame), micro the continuations waiting behind an await,    *)
(* log the history of what was called with what.                           *)
(***************************************************************************)
Idle ==
    [phase |-> "idle", app |-> "", contract |-> "", body |-> Undefined, headers |-> Undefined,
     query |-> Undefined, params |-> Undefined, context |-> Undefined,
     headersSent |-> FALSE, sent |-> <<>>, stack |-> <<>>, micro |-> <<>>, log |-> <<>>,
     idx |-> 0]

Frame(kind, layer) == [kind |-> kind, layer |-> layer, finished |-> FALSE, term |-> FALSE]
Cont(kind, layer, finished, rejected, outcome) ==
    [kind |-> kind, layer |-> layer, finished |-> finished, rejected |-> rejected,
     outcome |-> outcome]
NoOutcome == [k |-> "none", result |-> NoResult, thrown |-> Undefined]
Event(e, layer, data) == [e |-> e, layer |-> layer, data |-> data]

Top(q) == q.stack[Len(q.stack)]
Pop(q) == [q EXCEPT !.stack = SubSeq(@, 1, Len(@) - 1)]
Push(q, f) == [q EXCEPT !.stack = Append(@, f)]
SetTop(q, f) == [q EXCEPT !.stack[Len(q.stack)] = f]
Defer(q, c) == [q EXCEPT !.micro = Append(@, c)]
Log(q, e, layer, data) == [q EXCEPT !.log = Append(@, Event(e, layer, data))]

TheContract(q) == Contracts[q.contract]
NumMiddlewares(q) == Len(TheContract(q).middlewares)
MiddlewareAt(q, i) == Middlewares[TheContract(q).middlewares[i]]

\* (req as any).context ?? {}
ContextOrEmpty(q) == IF q.context = Undefined THEN EmptyObject ELSE q.context

\* res.status(status).json(body) on a response whose headers are not sent yet; by
\* names the statement that sends.
Respond(q, by, status, body) ==
    [q EXCEPT !.headersSent = TRUE,
              !.sent = Append(@, [by |-> by, status |-> status, body |-> body])]

\* Mutant of CallNext: next() goes straight to the contract's own function.
CallNextSkips(q, i) ==
    Push([Log(q, "next", i, Undefined) EXCEPT !.idx = NumMiddlewares(q) + 1],
         Frame("invoke", NumMiddlewares(q) + 1))

\* Express, past the last layer of the route: no other route of the app matches, and
\* the final handler answers 404 with a page naming method and path unless the
\* headers are sent.
RouteDone(q) ==
    IF q.headersSent THEN q
    ELSE Respond(q, "finalhandler", 404,
                 [t |-> "html", v |-> "Cannot " \o TheContract(q).method \o " "
                                      \o TheContract(q).path])

\* Express: the route's stack is the wrapped middlewares in their order, then the
\* contract's own function.  All layers of a request share one next(), which calls
\* the layer after the last one it called (idx counts the layers called): next() of
\* layer i calls layer i + 1 when it is the first next() since layer i was called.
CallNext(q, i) ==
    LET q1 == Log(q, "next", i, Undefined)
    IN  IF q.idx <= NumMiddlewares(q)
        THEN Push([q1 EXCEPT !.idx = @ + 1], Frame("invoke", q.idx + 1))
        ELSE RouteDone(q1)

\* err instanceof Error ? err.message : "Internal Server Error"
MwErrorMessage(e) == IF e.t = "Error" THEN e.v ELSE "Internal Server Error"
\* err instanceof Error ? err.message : String(err)
StringOf(x) == x.v
HandlerErrorMessage(e) == IF e.t = "Error" THEN e.v ELSE StringOf(e)

(***************************************************************************)
(* useMiddleware: the wrapper of middleware i.                             *)
(***************************************************************************)
\* The catch of the wrapper (not a ZodError): finished = true; a 500 unless headers are sent.
MwOuterCatch(q, e) ==
    IF ~q.headersSent THEN Respond(q, "mwCatch", 500, ErrorBody(MwErrorMessage(e))) ELSE q

\* Mutant of MwWrapperEnter: the handler is called with an empty context.
MwWrapperEnterNoContext(q) ==
    LET i == Top(q).layer
        m == MiddlewareAt(q, i)
        errors == MiddlewareErrors(m, q)
        q1 == Log(q, "mwEnter", i, errors)
    IN  IF errors # <<>>
        THEN Respond(Pop(q1), "mwValidation", 400, ErrorsBody(errors))
        ELSE Log(SetTop(q1, Frame("mw", i)), "mwHandler", i,
                 [body |-> ParsedPart(m.request.body, q.body),
                  headers |-> ParsedPart(m.request.headers, q.headers),
                  query |-> ParsedPart(m.request.query, q.query),
                  context |-> EmptyObject])

\* From the wrapper's entry to the call of the middleware's handler.
MwWrapperEnter(q) ==
    LET i == Top(q).layer
        m == MiddlewareAt(q, i)
        errors == MiddlewareErrors(m, q)
        q1 == Log(q, "mwEnter", i, errors)
    IN  IF errors # <<>>
        THEN IF q1.headersSent
             THEN MwOuterCatch(Pop(q1), HeadersSentError)
             ELSE Respond(Pop(q1), "mwValidation", 400, ErrorsBody(errors))
        ELSE Log(SetTop(q1, Frame("mw", i)), "mwHandler", i,
                 [body |-> ParsedPart(m.request.body, q.body),
                  headers |-> ParsedPart(m.request.headers, q.headers),
                  query |-> ParsedPart(m.request.query, q.query),
                  context |-> ContextOrEmpty(q)])

\* Mutant of MwHandlerThrows: the exception is swallowed, the wrapper goes on as if
\* the handler had returned.
MwHandlerThrowsSwallowed(q, e) ==
    LET f == Top(q)
    IN  Defer(Pop(Log(q, "mwThrow", f.layer, e)),
              Cont("mwAfter", f.layer, f.finished, FALSE, NoOutcome))

\* Mutant of MwHandlerThrows: the catch does not look at finished.
MwHandlerThrowsAlways500(q, e) ==
    LET f == Top(q)
        q1 == Pop(Log(q, "mwThrow", f.layer, e))
    IN  IF q1.headersSent
        THEN Defer(q1, Cont("mwAfter", f.layer, f.finished, TRUE, NoOutcome))
        ELSE Defer(Respond(q1, "safeHandler", 500, ErrorBody(MwErrorMessage(e))),
                   Cont("mwAfter", f.layer, f.finished, FALSE, NoOutcome))

\* The handler is left by an exception e: the catch of safeHandler.
MwHandlerThrows(q, e) ==
    LET f == Top(q)
        q1 == Pop(Log(q, "mwThrow", f.layer, e))
    IN  IF f.finished
        THEN Defer(q1, Cont("mwAfter", f.layer, TRUE, FALSE, NoOutcome))
        ELSE IF q1.headersSent
             THEN Defer(q1, Cont("mwAfter", f.layer, FALSE, TRUE, NoOutcome))
             ELSE Defer(Respond(q1, "safeHandler", 500, ErrorBody(MwErrorMessage(e))),
                        Cont("mwAfter", f.layer, FALSE, FALSE, NoOutcome))

\* next.success(ctx)
NextSuccess(q, ctx) ==
    LET f == Top(q)
        q1 == Log(SetTop(q, [f EXCEPT !.finished = TRUE, !.term = TRUE]), "success", f.layer, ctx)
        q2 == [q1 EXCEPT !.context =
                  Spread(ContextOrEmpty(q), IF ctx = Undefined THEN EmptyObject ELSE ctx)]
    IN  CallNext(q2, f.layer)

\* Mutant of NextError: the response is sent and the chain goes on.
NextErrorProceeds(q, status, body) ==
    LET f == Top(q)
        q1 == Log(SetTop(q, [f EXCEPT !.finished = TRUE, !.term = TRUE]), "error", f.layer,
                  [status |-> status, body |-> body])
    IN  CallNext(Respond(q1, "next.error", status, body), f.layer)

\* next.error(status, body)
NextError(q, status, body) ==
    LET f == Top(q)
        q1 == Log(SetTop(q, [f EXCEPT !.finished = TRUE, !.term = TRUE]), "error", f.layer,
                  [status |-> status, body |-> body])
    IN  IF q1.headersSent
        THEN MwHandlerThrows(q1, HeadersSentError)
        ELSE Respond(q1, "next.error", status, body)

\* The handler itself calls res.status(status).json(body).
MwOwnSend(q, status, body) ==
    LET f == Top(q)
        q1 == Log(SetTop(q, [f EXCEPT !.term = TRUE]), "mwSend", f.layer,
                  [status |-> status, body |-> body])
    IN  IF q1.headersSent
        THEN MwHandlerThrows(q1, HeadersSentError)
        ELSE Respond(q1, "handler", status, body)

\* Mutant of MwHandlerReturns: the context of the request is dropped.
MwHandlerReturnsDropsContext(q) ==
    LET f == Top(q)
    IN  Defer(Pop(Log([q EXCEPT !.context = Undefined], "mwReturn", f.layer, Undefined)),
              Cont("mwAfter", f.layer, f.finished, FALSE, NoOutcome))

\* The handler returns: safeHandler resolves, the wrapper goes on after its await.
MwHandlerReturns(q) ==
    LET f == Top(q)
    IN  Defer(Pop(Log(q, "mwReturn", f.layer, Undefined)),
              Cont("mwAfter", f.layer, f.finished, FALSE, NoOutcome))

\* Mutant of MwAfterAwait: the wrapper never proceeds on its own.
MwAfterAwaitStops(q) ==
    LET c == Head(q.micro)
        q1 == [q EXCEPT !.micro = Tail(@)]
    IN  IF c.rejected THEN MwOuterCatch(q1, HeadersSentError) ELSE q1

\* After "await safeHandler()": proceed when the handler neither finished nor sent,
\* or the catch of the wrapper when safeHandler rejected.
MwAfterAwait(q) ==
    LET c == Head(q.micro)
        q1 == [q EXCEPT !.micro = Tail(@)]
    IN  IF c.rejected THEN MwOuterCatch(q1, HeadersSentError)
        ELSE IF ~c.finished /\ ~q1.headersSent THEN CallNext(q1, c.layer)
        ELSE q1


(***************************************************************************)
(* registerContracts: the function registered behind the middlewares.      *)
(***************************************************************************)
\* Mutant of ContractCatch: every caught error is answered with 400.
ContractCatchBadRequest(q, e) ==
    IF q.headersSent THEN q
    ELSE Respond(q, "catch", 400, ErrorBody(HandlerErrorMessage(e)))

\* The catch of the route function.  A send on a response whose headers are sent
\* throws again, out of the async function: nothing more is sent.
ContractCatch(q, e) ==
    IF q.headersSent THEN q
    ELSE IF e.t = "ZodError"
         THEN Respond(q, "catch", 500, ErrorsBody([j \in 1..Len(e.v) |->
                    [path |-> Join(e.v[j].path), message |-> e.v[j].message]]))
         ELSE Respond(q, "catch", 500, ErrorBody(HandlerErrorMessage(e)))

\* Mutant of ContractSend: the send goes out although the headers are sent.
ContractSendAgain(q, by, status, body) == Respond(q, by, status, body)

\* A send inside the try block.
ContractSend(q, by, status, body) ==
    IF q.headersSent THEN ContractCatch(q, HeadersSentError) ELSE Respond(q, by, status, body)

\* validatedBody?.data || {}
DataOrEmpty(d) == IF d.t = "undefined" THEN EmptyObject ELSE d

\* From the entry of the route function to the call of the contract's handler,
\* which ends as outcome says.
ContractEnter(q, outcome) ==
    LET c == TheContract(q)
        i == Top(q).layer
        errors == ContractErrors(c, q)
        q1 == Pop(Log(q, "contractEnter", i, errors))
        q2 == Log(q1, "handler", i,
                  [body |-> ParsedPart(c.request.body, q.body),
                   headers |-> ParsedPart(c.request.headers, q.headers),
                   query |-> ParsedPart(c.request.query, q.query),
                   params |-> ParsedPart(c.request.params, q.params),
                   context |-> ContextOrEmpty(q),
                   outcome |-> outcome])
    IN  IF errors # <<>> THEN ContractSend(q1, "validation", 400, ErrorsBody(errors))
        ELSE IF outcome.k = "throw" THEN ContractCatch(q2, outcome.thrown)
        ELSE Defer(q2, Cont("contractAfter", i, FALSE, FALSE, outcome))

\* Mutant of SendValidated: the handler's body is sent as it is.
SendUnvalidated(q, r, schema) == ContractSend(q, "result", r.status, r.body)

\* The handler's body is parsed by the schema of its status: the parse output is
\* sent with the status, or a 500 with the issues.
SendValidated(q, r, schema) ==
    LET validatedBody == SafeParse(schema, r.body)
    IN  IF ~validatedBody.success
        THEN ContractSend(q, "responseValidation", 500,
                 ErrorsBody([j \in 1..Len(validatedBody.issues) |->
                     ErrorEntry("response", validatedBody.issues[j])]))
        ELSE ContractSend(q, "result", r.status, DataOrEmpty(validatedBody.data))

\* Mutant of ContractAfterAwait: a null schema sends the status whatever the result
\* carries.
ContractAfterAwaitAnyBody(q) ==
    LET c == TheContract(q)
        o == Head(q.micro).outcome
        r == o.result
        q1 == [q EXCEPT !.micro = Tail(@)]
    IN  IF o.k = "reject" THEN ContractCatch(q1, o.thrown)
        ELSE IF ~r.defined \/ r.status = 0
        THEN ContractCatch(q1, Err("Handler did not return a valid response object with 'status'"))
        ELSE IF r.status \notin DOMAIN c.responses
        THEN ContractCatch(q1, Err("No schema defined for status " \o StatusText(r.status)))
        ELSE LET schema == c.responses[r.status]
             IN  IF schema.kind = "null"
                 THEN ContractSend(q1, "sendStatus", r.status, NoBody)
                 ELSE IF ~r.hasBody
                 THEN ContractCatch(q1, Err("Response for status " \o StatusText(r.status)
                                             \o " must include a body"))
                 ELSE SendValidated(q1, r, schema)

\* Mutant of ContractAfterAwait: a status without an entry in responses is sent with
\* the handler's body.
ContractAfterAwaitUndeclared(q) ==
    LET c == TheContract(q)
        o == Head(q.micro).outcome
        r == o.result
        q1 == [q EXCEPT !.micro = Tail(@)]
    IN  IF o.k = "reject" THEN ContractCatch(q1, o.thrown)
        ELSE IF ~r.defined \/ r.status = 0
        THEN ContractCatch(q1, Err("Handler did not return a valid response object with 'status'"))
        ELSE IF r.status \notin DOMAIN c.responses
        THEN ContractSend(q1, "result", r.status, r.body)
        ELSE LET schema == c.responses[r.status]
             IN  IF schema.kind = "null"
                 THEN IF r.hasBody /\ r.body # Undefined
                      THEN ContractCatch(q1, Err("Response must not include a body for status "
                                                  \o StatusText(r.status)))
                      ELSE ContractSend(q1, "sendStatus", r.status, NoBody)
                 ELSE IF ~r.hasBody
                 THEN ContractCatch(q1, Err("Response for status " \o StatusText(r.status)
                                             \o " must include a body"))
                 ELSE SendValidated(q1, r, schema)

\* Mutant of ContractAfterAwait: the result is not checked for a status; a result
\* without one finds no schema.
ContractAfterAwaitNoStatusCheck(q) ==
    LET c == TheContract(q)
        o == Head(q.micro).outcome
        r == o.result
        q1 == [q EXCEPT !.micro = Tail(@)]
    IN  IF o.k = "reject" THEN ContractCatch(q1, o.thrown)
        ELSE IF ~r.defined \/ r.status \notin DOMAIN c.responses
        THEN ContractCatch(q1, Err("No schema defined for status " \o StatusText(r.status)))
        ELSE LET schema == c.responses[r.status]
             IN  IF schema.kind = "null"
                 THEN IF r.hasBody /\ r.body # Undefined
                      THEN ContractCatch(q1, Err("Response must not include a body for status "
                                                  \o StatusText(r.status)))
                      ELSE ContractSend(q1, "sendStatus", r.status, NoBody)
                 ELSE IF ~r.hasBody
                 THEN ContractCatch(q1, Err("Response for status " \o StatusText(r.status)
                                             \o " must include a body"))
                 ELSE SendValidated(q1, r, schema)

\* After "await contract.handler(...)": the result is checked and sent.
ContractAfterAwait(q) ==
    LET c == TheContract(q)
        o == Head(q.micro).outcome
        r == o.result
        q1 == [q EXCEPT !.micro = Tail(@)]
    IN  IF o.k = "reject" THEN ContractCatch(q1, o.thrown)
        ELSE IF ~r.defined \/ r.status = 0
        THEN ContractCatch(q1, Err("Handler did not return a valid response object with 'status'"))
        ELSE IF r.status \notin DOMAIN c.responses
        THEN ContractCatch(q1, Err("No schema defined for status " \o StatusText(r.status)))
        ELSE LET schema == c.responses[r.status]
             IN  IF schema.kind = "null"
                 THEN IF r.hasBody /\ r.body # Undefined
                      THEN ContractCatch(q1, Err("Response must not include a body for status "
                                                  \o StatusText(r.status)))
                      ELSE ContractSend(q1, "sendStatus", r.status, NoBody)
                 ELSE IF ~r.hasBody
                 THEN ContractCatch(q1, Err("Response for status " \o StatusText(r.status)
                                             \o " must include a body"))
                 ELSE SendValidated(q1, r, schema)

(***************************************************************************)
(* The steps of a request.                                                 *)
(***************************************************************************)
Running(kind) == rq.phase = "open" /\ rq.stack # <<>> /\ Top(rq).kind = kind
Resumed(kind) == rq.phase = "open" /\ rq.stack = <<>> /\ rq.micro # <<>> /\ Head(rq.micro).kind = kind

\* A request is in flight while a frame runs or a continuation waits.
InFlight == rq.phase = "open" /\ (rq.stack # <<>> \/ rq.micro # <<>>)

\* registerContracts runs synchronously, between requests.
\* Mutant of RegisterContractsUpTo: one set of keys for all apps.
RegisterContractsShared(a, lists, max) ==
    /\ ~InFlight
    /\ apps[a].calls < max
    /\ \E list \in lists :
          apps' = [apps EXCEPT ![a] =
                     [RegisterLoop([@ EXCEPT !.registered =
                                        UNION {apps[x].registered : x \in AppIds}], list)
                        EXCEPT !.calls = @ + 1]]
    /\ UNCHANGED <<rq, doc, reqs>>

\* registeredContractsMap.get(app), then the loop over the contracts of the call.
RegisterContractsUpTo(a, lists, max) ==
    /\ ~InFlight
    /\ apps[a].calls < max
    /\ \E list \in lists :
          apps' = [apps EXCEPT ![a] = [RegisterLoop(@, list) EXCEPT !.calls = @ + 1]]
    /\ UNCHANGED <<rq, doc, reqs>>

RegisterContracts(a, lists) == RegisterContractsUpTo(a, lists, MaxRegisterCalls)

Startup == RegisterContracts("A", StartupLists)

\* Express routes a request to the first route of its method and path and calls the
\* first layer of the route.
Arrive ==
    /\ rq.phase = "idle"
    /\ \E a \in AppIds : \E key \in RoutedKeys(apps[a]) :
       \E b \in ReqBodies, h \in ReqHeaders, qy \in ReqQueries, p \in ReqParams :
          rq' = [Idle EXCEPT !.phase = "open", !.app = a, !.contract = FirstRoute(apps[a], key),
                             !.body = b, !.headers = h, !.query = qy, !.params = p,
                             !.stack = <<Frame("invoke", 1)>>, !.idx = 1]
    /\ UNCHANGED <<apps, doc, reqs>>

MiddlewareWrapper ==
    /\ Running("invoke") /\ Top(rq).layer <= NumMiddlewares(rq)
    /\ rq' = MwWrapperEnter(rq)
    /\ UNCHANGED <<apps, doc, reqs>>

\* A middleware handler decides at most once (next.success, next.error or an own
\* response); it may still throw afterwards.
MwSuccess ==
    /\ Running("mw") /\ ~Top(rq).term
    /\ \E ctx \in Contexts : rq' = NextSuccess(rq, ctx)
    /\ UNCHANGED <<apps, doc, reqs>>

MwError ==
    /\ Running("mw") /\ ~Top(rq).term
    /\ \E e \in MwErrors : rq' = NextError(rq, e.status, e.body)
    /\ UNCHANGED <<apps, doc, reqs>>

MwSend ==
    /\ Running("mw") /\ ~Top(rq).term
    /\ \E e \in MwSends : rq' = MwOwnSend(rq, e.status, e.body)
    /\ UNCHANGED <<apps, doc, reqs>>

MwThrow ==
    /\ Running("mw")
    /\ \E e \in MwThrown : rq' = MwHandlerThrows(rq, e)
    /\ UNCHANGED <<apps, doc, reqs>>

MwReturn ==
    /\ Running("mw")
    /\ rq' = MwHandlerReturns(rq)
    /\ UNCHANGED <<apps, doc, reqs>>

MwAfter ==
    /\ Resumed("mwAfter")
    /\ rq' = MwAfterAwait(rq)
    /\ UNCHANGED <<apps, doc, reqs>>

ContractRoute ==
    /\ Running("invoke") /\ Top(rq).layer = NumMiddlewares(rq) + 1
    /\ \E o \in HandlerOutcomes : rq' = ContractEnter(rq, o)
    /\ UNCHANGED <<apps, doc, reqs>>

ContractAfter ==
    /\ Resumed("contractAfter")
    /\ rq' = ContractAfterAwait(rq)
    /\ UNCHANGED <<apps, doc, reqs>>

\* Two requests that are served at the same time.
RequestIds == {1, 2}

\* No document has been generated.
NoDoc == [called |-> FALSE, contracts |-> <<>>, metadata |-> Undefined, result |-> Undefined]

Init ==
    /\ apps = [a \in AppIds |-> NewApp]
    /\ rq = Idle
    /\ doc = NoDoc
    /\ reqs = [r \in RequestIds |-> Idle]

Next ==
    \/ Startup
    \/ Arrive
    \/ MiddlewareWrapper
    \/ MwSuccess
    \/ MwError
    \/ MwSend
    \/ MwThrow
    \/ MwReturn
    \/ MwAfter
    \/ ContractRoute
    \/ ContractAfter

Spec == Init /\ [][Next]_vars

(***************************************************************************)
(* Properties.  They read the history rq.log and the responses rq.sent.    *)
(***************************************************************************)
Parts == {"body", "headers", "query", "params"}
Open == rq.phase = "open"
Events(kind) == {j \in 1..Len(rq.log) : rq.log[j].e = kind}
EventsAt(kind, layer) == {j \in Events(kind) : rq.log[j].layer = layer}
Pending(kind) == \E j \in 1..Len(rq.micro) : rq.micro[j].kind = kind

PartRejected(schema, value) == schema.kind = "object" /\ ~SafeParse(schema, value).success
ContractRejects == \E p \in Parts : PartRejected(TheContract(rq).request[p], rq[p])
ReachedContract == Events("contractEnter") # {}

IsErrorEntry(x) ==
    /\ x.t = "object" /\ DOMAIN x.v = {"path", "message"}
    /\ x.v["path"].t = "string" /\ x.v["message"].t = "string"
IsErrorList(body) ==
    /\ body.t = "object" /\ DOMAIN body.v = {"errors"}
    /\ body.v["errors"].t = "array" /\ Len(body.v["errors"].v) >= 1
    /\ \A j \in 1..Len(body.v["errors"].v) : IsErrorEntry(body.v["errors"].v[j])

\* C1: when a declared request part of the contract is rejected by its schema, the
\* route answers 400 with {errors: [{path, message}, ...]} and the contract's handler
\* is never invoked for the request.
C1_Rejected400 ==
    (Open /\ ReachedContract /\ ContractRejects) =>
        /\ Len(rq.sent) = 1
        /\ rq.sent[1].status = 400
        /\ IsErrorList(rq.sent[1].body)
        /\ Events("handler") = {}

C1_Witness ==
    /\ Open /\ ReachedContract /\ ContractRejects
    /\ NumMiddlewares(rq) > 0
    /\ Len(rq.sent) = 1 /\ rq.sent[1].status = 400

\* The entries one part contributes: its issues in zod's order, the path prefixed.
ExpectedEntries(p) ==
    LET schema == TheContract(rq).request[p]
        r == SafeParse(schema, rq[p])
    IN  IF schema.kind # "object" \/ r.success THEN <<>>
        ELSE [j \in 1..Len(r.issues) |->
                O(("path" :> S(p \o "." \o Join(r.issues[j].path)))
                  @@ ("message" :> S(r.issues[j].message)))]

\* C2: the errors of the 400 response are the issues of every failing part, body
\* first, then headers, query, params, each path prefixed with the part's name; a
\* failing part never hides a later one.
C2_AllPartsInOrder ==
    (Open /\ ReachedContract /\ ContractRejects) =>
        /\ Len(rq.sent) = 1
        /\ rq.sent[1].body =
              O("errors" :> A(ExpectedEntries("body") \o ExpectedEntries("headers")
                              \o ExpectedEntries("query") \o ExpectedEntries("params")))

C2_Witness ==
    /\ Open /\ ReachedContract
    /\ \A p \in Parts : ExpectedEntries(p) # <<>>
    /\ Len(ExpectedEntries("body")) = 2
    /\ Len(rq.sent) = 1 /\ Len(rq.sent[1].body.v["errors"].v) = 5

\* The handler invocations that ended with an exception the route has handled.
HandlerFailed(j) ==
    /\ rq.log[j].data.outcome.k \in {"throw", "reject"}
    /\ ~Pending("contractAfter")

\* C3: when the contract's handler throws or rejects, the response is 500, and for an
\* exception that is not a ZodError its body is {error: <message>}.
C3_HandlerThrows500 ==
    Open => \A j \in Events("handler") :
        HandlerFailed(j) =>
            /\ Len(rq.sent) = 1
            /\ rq.sent[1].status = 500
            /\ rq.log[j].data.outcome.thrown.t # "ZodError" =>
                  rq.sent[1].body = O("error" :> S(rq.log[j].data.outcome.thrown.v))

C3_Witness ==
    /\ Open
    /\ \E j \in Events("handler") :
          /\ HandlerFailed(j)
          /\ rq.log[j].data.outcome.k = "reject"
          /\ rq.sent = <<[by |-> "catch", status |-> 500, body |-> O("error" :> S("Handler crash"))]>>

\* Something of a layer behind layer i was called.
LaterInvoked(i) ==
    \E j \in 1..Len(rq.log) :
        rq.log[j].e \in {"mwEnter", "mwHandler", "contractEnter", "handler"} /\ rq.log[j].layer > i
\* Before log position j, the handler of layer i made a call of this kind.
CalledBefore(kind, i, j) == \E k \in EventsAt(kind, i) : k < j
Replied(status, body) ==
    Len(rq.sent) = 1 /\ rq.sent[1].status = status /\ rq.sent[1].body = body

\* C4, as stated: a middleware handler that throws before calling next.success or
\* next.error gets the response 500 {error: <the exception's message>}, and nothing
\* behind the middleware is invoked.
C4_Original ==
    Open => \A j \in Events("mwThrow") :
        LET i == rq.log[j].layer
            e == rq.log[j].data
        IN  (e.t = "Error" /\ ~CalledBefore("success", i, j) /\ ~CalledBefore("error", i, j)) =>
                Replied(500, O("error" :> S(e.v))) /\ ~LaterInvoked(i)

\* A response was sent before log position j by a middleware handler, on res itself
\* or through next.error.
SentBefore(j) == \E k \in Events("mwSend") \cup Events("error") : k < j

\* C4, amended: a middleware handler that throws before calling next.success or
\* next.error, while no response has been sent for the request, gets the response
\* 500 with {error: <message>}, the message of the Error or "Internal Server Error"
\* for any other thrown value, and nothing behind the middleware is invoked.
C4_ThrowBeforeDecision500 ==
    Open => \A j \in Events("mwThrow") :
        LET i == rq.log[j].layer
            e == rq.log[j].data
        IN  (~CalledBefore("success", i, j) /\ ~SentBefore(j)) =>
                /\ Replied(500, O("error" :> S(IF e.t = "Error" THEN e.v
                                                 ELSE "Internal Server Error")))
                /\ ~LaterInvoked(i)

C4_Witness ==
    /\ Open /\ NumMiddlewares(rq) = 2
    /\ \E j \in EventsAt("mwThrow", 1) :
          /\ ~CalledBefore("success", 1, j) /\ ~CalledBefore("mwSend", 1, j)
          /\ rq.log[j].data = Err("Middleware failure")
    /\ Replied(500, O("error" :> S("Middleware failure")))
    /\ rq.stack = <<>> /\ rq.micro = <<>>

\* C5: after next.error(status, body) the response is that status with that body, and
\* nothing behind the middleware is invoked.
C5_NextErrorReplies ==
    Open => \A j \in Events("error") :
        /\ Replied(rq.log[j].data.status, rq.log[j].data.body)
        /\ ~LaterInvoked(rq.log[j].layer)

C5_Witness ==
    /\ Open /\ EventsAt("error", 2) # {} /\ EventsAt("success", 1) # {}
    /\ Replied(401, O("error" :> S("Unauthorized")))
    /\ rq.stack = <<>> /\ rq.micro = <<>>

\* What layer i passed to next.success, as an object (ctx || {}).
SuccessArg(i) ==
    LET ctx == rq.log[CHOOSE j \in EventsAt("success", i) : TRUE].data
    IN  IF ctx = Undefined THEN EmptyObject ELSE ctx
\* The last of the layers in ls that passed key k to next.success.
LastGiver(ls, k) ==
    CHOOSE i \in ls : k \in Keys(SuccessArg(i)) /\ \A i2 \in ls : k \in Keys(SuccessArg(i2)) => i2 <= i
\* ctx is the merge of what the layers in ls passed to next.success, in their order.
IsMergeOf(ctx, ls) ==
    /\ ctx.t = "object"
    /\ Keys(ctx) = UNION {Keys(SuccessArg(i)) : i \in ls}
    /\ \A k \in Keys(ctx) : ctx.v[k] = SuccessArg(LastGiver(ls, k)).v[k]

\* C6: when every middleware called next.success, the handler's context is the merge
\* of the objects they passed, in their declared order: the last value of a key
\* wins, a key nobody passes again is kept.
C6_ContextIsMerge ==
    Open => \A h \in Events("handler") :
        (\A i \in 1..NumMiddlewares(rq) :
            Cardinality({k \in EventsAt("success", i) : k < h}) = 1) =>
            IsMergeOf(rq.log[h].data.context, 1..NumMiddlewares(rq))

C6_Witness ==
    /\ Open /\ NumMiddlewares(rq) = 2
    /\ \E h \in Events("handler") :
          /\ \A i \in 1..2 : \E k \in EventsAt("success", i) : k < h
          /\ SuccessArg(1) = O(("username" :> S("nidal")) @@ ("dob" :> S("2003")))
          /\ SuccessArg(2) = O("username" :> S("overridden"))
          /\ rq.log[h].data.context = O(("username" :> S("overridden")) @@ ("dob" :> S("2003")))

\* C7: the context a middleware handler receives holds every field the middlewares
\* before it passed to next.success, and is empty for the first middleware.
C7_ContextReachesMiddleware ==
    Open => \A j \in Events("mwHandler") :
        LET i == rq.log[j].layer
            givers == {g \in 1..(i - 1) : \E k \in EventsAt("success", g) : k < j}
        IN  /\ i = 1 => rq.log[j].data.context = EmptyObject
            /\ IsMergeOf(rq.log[j].data.context, givers)

C7_Witness ==
    /\ Open
    /\ \E j \in EventsAt("mwHandler", 2) :
          rq.log[j].data.context = O(("username" :> S("nidal")) @@ ("dob" :> S("2003")))

\* Layer i called Express's next before log position j.
Proceeded(i, j) == \E k \in EventsAt("next", i) : k < j

\* C8: the wrapper of middleware i+1 is entered only after middleware i proceeded, and
\* the contract's validation and handler only after every middleware proceeded, in
\* their declared order.
C8_DeclaredOrder ==
    Open =>
        /\ \A j \in Events("mwEnter") \cup Events("contractEnter") \cup Events("handler") :
              \A i \in 1..(rq.log[j].layer - 1) : Proceeded(i, j)
        /\ \A j \in Events("contractEnter") \cup Events("handler") :
              rq.log[j].layer = NumMiddlewares(rq) + 1
        /\ \A j \in Events("next") :
              /\ \E k \in EventsAt("mwEnter", rq.log[j].layer) : k < j
              /\ \A i \in 1..(rq.log[j].layer - 1) : Proceeded(i, j)

C8_Witness ==
    /\ Open /\ NumMiddlewares(rq) = 2
    /\ \E h \in Events("handler") : \E k1 \in EventsAt("next", 1), k2 \in EventsAt("next", 2) :
          k1 < k2 /\ k2 < h
    /\ EventsAt("success", 1) = {} /\ EventsAt("success", 2) # {}

\* The handler returned a result and the route has dealt with it.
HandlerReturned(h) ==
    rq.log[h].data.outcome.k = "return" /\ ~Pending("contractAfter")
\* The result names a status with a declared, non-null schema, and carries a body.
HasDeclaredBody(r) ==
    /\ r.defined /\ r.hasBody
    /\ r.status \in DOMAIN TheContract(rq).responses
    /\ TheContract(rq).responses[r.status].kind = "object"
ResponseIssues(r) == SafeParse(TheContract(rq).responses[r.status], r.body).issues

\* C9: the statement that sends the handler's status with a JSON body runs only when
\* responses[status] is a schema that accepts the handler's body, and sends the
\* schema's parse output; a body the schema rejects gets a 500 with
\* {errors: [...]}, the paths prefixed with "response.".
C9_ResponseValidated ==
    Open => \A h \in Events("handler") :
        LET r == rq.log[h].data.outcome.result
        IN  HandlerReturned(h) =>
              /\ (rq.sent # <<>> /\ rq.sent[1].by = "result") =>
                    /\ HasDeclaredBody(r)
                    /\ ResponseIssues(r) = <<>>
                    /\ Replied(r.status, SafeParse(TheContract(rq).responses[r.status], r.body).data)
              /\ (HasDeclaredBody(r) /\ ResponseIssues(r) # <<>>) =>
                    Replied(500, O("errors" :> A([j \in 1..Len(ResponseIssues(r)) |->
                        O(("path" :> S("response." \o Join(ResponseIssues(r)[j].path)))
                          @@ ("message" :> S(ResponseIssues(r)[j].message)))])))
              /\ (HasDeclaredBody(r) /\ ResponseIssues(r) = <<>>) =>
                    (rq.sent # <<>> /\ rq.sent[1].by = "result")

C9_Witness ==
    /\ Open
    /\ \E h \in Events("handler") :
          /\ HandlerReturned(h)
          /\ rq.log[h].data.outcome.result = Result(200, BadUser)
    /\ Len(rq.sent) = 1 /\ rq.sent[1].status = 500
    /\ Len(rq.sent[1].body.v["errors"].v) = 2
    /\ rq.sent[1].body.v["errors"].v[1].v["path"] = S("response.id")

\* A declared request part of middleware i is rejected by its schema.
MiddlewareRejects(i) ==
    \E p \in {"body", "headers", "query"} : PartRejected(MiddlewareAt(rq, i).request[p], rq[p])

\* C10: when a declared request part of a middleware is rejected by its schema, the
\* response is 400 with {errors: [...]}, the middleware's handler is not invoked and
\* nothing behind the middleware is.
C10_MiddlewareRejected400 ==
    Open => \A j \in Events("mwEnter") :
        LET i == rq.log[j].layer
        IN  MiddlewareRejects(i) =>
              /\ Len(rq.sent) = 1
              /\ rq.sent[1].status = 400
              /\ IsErrorList(rq.sent[1].body)
              /\ EventsAt("mwHandler", i) = {}
              /\ ~LaterInvoked(i)

C10_Witness ==
    /\ Open
    /\ EventsAt("mwEnter", 2) # {} /\ MiddlewareRejects(2) /\ ~MiddlewareRejects(1)
    /\ Len(rq.sent) = 1 /\ rq.sent[1].status = 400

\* The entries the issues of one request part of middleware i would give with the
\* bare dotted path of the failing field.
BareEntries(i, p) ==
    LET schema == MiddlewareAt(rq, i).request[p]
        r == SafeParse(schema, rq[p])
    IN  IF schema.kind # "object" \/ r.success THEN <<>>
        ELSE [j \in 1..Len(r.issues) |->
                O(("path" :> S(Join(r.issues[j].path)))
                  @@ ("message" :> S(r.issues[j].message)))]

\* C11: the 400 response of a middleware's request validation has one entry per
\* failing field, and the path of an entry is the dotted path of the field without
\* the name of the request part in front.
C11_BarePaths ==
    Open => \A j \in Events("mwEnter") :
        LET i == rq.log[j].layer
        IN  MiddlewareRejects(i) =>
              /\ Len(rq.sent) = 1
              /\ rq.sent[1].body =
                    O("errors" :> A(BareEntries(i, "body") \o BareEntries(i, "headers")
                                    \o BareEntries(i, "query")))

(***************************************************************************)
(* Registration on several apps.  registerContracts is called on either    *)
(* app, in any order, with lists that repeat a key inside one call and     *)
(* across calls; requests are then served by whatever routes exist.        *)
(***************************************************************************)
MaxCallsPerApp == 2  \* calls of registerContracts on each app

RegLists == {<<"updateUser", "replaceUser", "deleteUser">>,
             <<"replaceUser", "deleteUser", "updateUser">>}

\* The calls are made at startup, before the app serves a request.
RegisterAny ==
    /\ rq.phase = "idle"
    /\ \E a \in AppIds : RegisterContractsUpTo(a, RegLists, MaxCallsPerApp)

\* A request that passes every request schema but, for one value of the params, the
\* params schema.
ArriveValid ==
    /\ rq.phase = "idle"
    /\ \E a \in AppIds : \E key \in RoutedKeys(apps[a]) : \E p \in ReqParams :
          rq' = [Idle EXCEPT !.phase = "open", !.app = a, !.contract = FirstRoute(apps[a], key),
                             !.body = ValidBody,
                             !.headers = O(("authorization" :> S("Bearer ABC123"))
                                           @@ ("host" :> S("localhost"))),
                             !.query = O("id" :> S("123")), !.params = p,
                             !.stack = <<Frame("invoke", 1)>>, !.idx = 1]
    /\ UNCHANGED <<apps, doc, reqs>>

NextReg ==
    \/ RegisterAny
    \/ ArriveValid
    \/ MiddlewareWrapper
    \/ MwSuccess
    \/ MwError
    \/ MwSend
    \/ MwThrow
    \/ MwReturn
    \/ MwAfter
    \/ ContractRoute
    \/ ContractAfter

SpecReg == Init /\ [][NextReg]_vars

\* Of a sequence of contracts, those that are the first with their key (keep = TRUE)
\* or those that come after another with the same key (keep = FALSE), in order.
RECURSIVE SplitByKey(_, _, _)
SplitByKey(cs, seen, keep) ==
    IF cs = <<>> THEN <<>>
    ELSE LET key == RouteKey(Contracts[Head(cs)])
             rest == SplitByKey(Tail(cs), seen \cup {key}, keep)
         IN  IF (key \notin seen) = keep THEN <<Head(cs)>> \o rest ELSE rest

\* C12: on every app each key has at most one route; the routes are the contracts
\* that were the first with their key among all those passed to registerContracts on
\* the app, every later contract with a key already seen is skipped, and a request is
\* served by the first contract of its key, never by a skipped one.
C12_RegisteredOnce ==
    \A a \in AppIds :
        LET app == apps[a]
        IN  /\ \A j, k \in 1..Len(app.routes) :
                  RouteKey(Contracts[app.routes[j]]) = RouteKey(Contracts[app.routes[k]]) => j = k
            /\ app.routes = SplitByKey(app.asked, {}, TRUE)
            /\ app.warned = SplitByKey(app.asked, {}, FALSE)
            /\ (Open /\ rq.app = a) =>
                  /\ rq.contract = SplitByKey(app.asked, {}, TRUE)[
                        CHOOSE j \in 1..Len(app.routes) :
                            RouteKey(Contracts[app.routes[j]]) = RouteKey(TheContract(rq))]
                  /\ rq.contract \notin
                        {app.warned[j] : j \in 1..Len(app.warned)}
                        \ {app.routes[k] : k \in 1..Len(app.routes)}

C12_Witness ==
    /\ apps["A"].calls = 2
    /\ apps["A"].routes = <<"replaceUser", "deleteUser">>
    /\ apps["A"].warned = <<"updateUser", "updateUser", "replaceUser", "deleteUser">>
    /\ Open /\ rq.app = "A" /\ rq.contract = "replaceUser"
    /\ Events("handler") # {}

\* C13: a step that changes the registered set of an app is a call of
\* registerContracts on that app and only adds keys; a step of a request, whatever
\* it sends, leaves the registered set of every app as it was.
C13_OnlyRegistrationAdds ==
    [][/\ \A a \in AppIds :
             /\ apps[a].registered \subseteq apps'[a].registered
             /\ apps'[a].registered # apps[a].registered =>
                   (apps'[a].calls = apps[a].calls + 1 /\ rq' = rq)
       /\ rq' # rq => \A a \in AppIds : apps'[a].registered = apps[a].registered]_vars

\* A request has been answered by a middleware's next.error on an app with
\* registered keys.
C13_Witness ==
    /\ Open /\ rq.stack = <<>> /\ rq.micro = <<>>
    /\ Len(rq.sent) = 1 /\ rq.sent[1].by = "next.error"
    /\ apps[rq.app].registered = {"put:/users/:userId", "delete:/users/:userId"}
    /\ apps[rq.app].calls = 2

\* The keys of the contracts passed to registerContracts on app a.
AskedKeys(a) == {RouteKey(Contracts[apps[a].asked[j]]) : j \in 1..Len(apps[a].asked)}

\* C14: the registered set of an app holds the keys of the contracts passed to
\* registerContracts on that app and no others, so a key registered on one app is
\* still registered, not skipped, on another; and a call on one app leaves the other
\* app's set, routes and skipped contracts as they were.
C14_PerApp ==
    /\ [](\A a \in AppIds :
            /\ apps[a].registered = AskedKeys(a)
            /\ RoutedKeys(apps[a]) = AskedKeys(a))
    /\ [][\A a, b \in AppIds :
            (a # b /\ apps'[b].calls # apps[b].calls) => apps'[a] = apps[a]]_vars

\* B registered updateUser for a key that A had given to replaceUser before.
C14_Witness ==
    /\ apps["A"].routes = <<"replaceUser", "deleteUser">>
    /\ apps["A"].calls = 1
    /\ apps["B"].routes = <<"updateUser", "deleteUser">>
    /\ apps["B"].warned = <<"replaceUser">>
    /\ Open /\ rq.app = "B" /\ rq.contract = "updateUser" /\ Events("handler") # {}

\* C15: the contract's handler gets, for every request part with a declared schema,
\* the output of the schema's parse of that part (coerced, undeclared keys dropped),
\* and undefined for every part without a schema.
C15_ParsedArguments ==
    Open => \A h \in Events("handler") : \A p \in Parts :
        LET schema == TheContract(rq).request[p]
            given == rq.log[h].data[p]
        IN  IF schema.kind = "object"
            THEN /\ SafeParse(schema, rq[p]).success
                 /\ given = SafeParse(schema, rq[p]).data
                 /\ Keys(given) = ShapeKeys(schema.shape)
            ELSE given = Undefined

\* updateUser's handler got the number 3 for the param "3" and the body without its
\* undeclared key.
C15_Witness ==
    /\ Open /\ rq.contract = "updateUser"
    /\ rq.params = O("userId" :> S("3")) /\ rq.body = ValidBody /\ "extra" \in Keys(ValidBody)
    /\ \E h \in Events("handler") :
          /\ rq.log[h].data.params = O("userId" :> N("3"))
          /\ rq.log[h].data.body = O(("foo" :> S("x")) @@ ("bar" :> N("1")))
          /\ rq.log[h].data.params # rq.params

\* The result names a status whose declared response schema is null.
HasNullSchema(r) ==
    /\ r.defined /\ r.status # 0
    /\ r.status \in DOMAIN TheContract(rq).responses
    /\ TheContract(rq).responses[r.status].kind = "null"

\* C16: for a status declared with the schema null, a result without a body (no body
\* key, or body undefined) is answered with that status and no JSON body; a result
\* with any other body is answered with 500, not with the declared status.
C16_NullSchema ==
    Open => \A h \in Events("handler") :
        LET r == rq.log[h].data.outcome.result
        IN  (HandlerReturned(h) /\ HasNullSchema(r)) =>
              IF ~r.hasBody \/ r.body = Undefined
              THEN Replied(r.status, NoBody) /\ rq.sent[1].by = "sendStatus"
              ELSE /\ Len(rq.sent) = 1 /\ rq.sent[1].status = 500
                   /\ rq.sent[1].status # r.status

\* A 204 result with a body was answered with 500.
C16_Witness ==
    /\ Open
    /\ \E h \in Events("handler") :
          HandlerReturned(h) /\ rq.log[h].data.outcome.result = Result(204, GoodUser)
    /\ Replied(500, O("error" :> S("Response must not include a body for status 204")))

(***************************************************************************)
(* generateOpenApi(contracts, metadata).                                   *)
(***************************************************************************)
MaxDocLen == 2  \* contracts in one call of generateOpenApi

\* toJSONSchema of the schema of one field.
FieldJsonSchema(ty) ==
    O(("$schema" :> S("https://json-schema.org/draft/2020-12/schema"))
      @@ ("type" :> S(IF ty \in {"number", "coerce"} THEN "number" ELSE "string")))

\* The field's schema accepts undefined: schema.safeParse(undefined).success
AcceptsUndefined(ty) == ParseField(ty, Undefined)[1]

RECURSIVE RequiredKeys(_)
RequiredKeys(shape) ==
    IF shape = <<>> THEN <<>>
    ELSE (IF AcceptsUndefined(Head(shape).ty) THEN <<>> ELSE <<S(Head(shape).key)>>)
         \o RequiredKeys(Tail(shape))

\* const {$schema, ...rest} = schema; return rest
SanitizeSchema(schema) == O([k \in Keys(schema) \ {"$schema"} |-> schema.v[k]])

\* toJSONSchema of a z.object schema.
ToJsonSchema(schema) ==
    O(("$schema" :> S("https://json-schema.org/draft/2020-12/schema"))
      @@ ("type" :> S("object"))
      @@ ("properties" :>
            O([k \in ShapeKeys(schema.shape) |->
                 SanitizeSchema(FieldJsonSchema(schema.shape[ShapeType(schema.shape, k)].ty))]))
      @@ ("required" :> A(RequiredKeys(schema.shape)))
      @@ ("additionalProperties" :> B(FALSE)))

\* {content: {"application/json": {schema: sanitizeSchema(toJSONSchema(schema))}}}
JsonContent(schema) ==
    O("application/json" :> O("schema" :> SanitizeSchema(ToJsonSchema(schema))))

\* key.toLowerCase(), for the header names of the declared contracts.
LowerCase(key) == CASE key = "X-Api-Key" -> "x-api-key" [] OTHER -> key

\* Mutant of ParametersOf: every parameter is required.
ParametersOfAllRequired(schema, where) ==
    IF schema.kind = "none" THEN <<>>
    ELSE [j \in 1..Len(schema.shape) |->
            O(("name" :> S(IF where = "header" THEN LowerCase(schema.shape[j].key)
                           ELSE schema.shape[j].key))
              @@ ("in" :> S(where))
              @@ ("required" :> B(TRUE))
              @@ ("schema" :> SanitizeSchema(FieldJsonSchema(schema.shape[j].ty))))]

\* The parameters one schema contributes: one per key of its shape, in the shape's
\* order.
ParametersOf(schema, where) ==
    IF schema.kind = "none" THEN <<>>
    ELSE [j \in 1..Len(schema.shape) |->
            O(("name" :> S(IF where = "header" THEN LowerCase(schema.shape[j].key)
                           ELSE schema.shape[j].key))
              @@ ("in" :> S(where))
              @@ ("required" :> B(~AcceptsUndefined(schema.shape[j].ty)))
              @@ ("schema" :> SanitizeSchema(FieldJsonSchema(schema.shape[j].ty))))]

\* The status declared under the key text of contract.responses.
StatusOf(c, text) == CHOOSE st \in DOMAIN c.responses : StatusText(st) = text

\* Mutant of DocResponses: a status whose schema is null is left out.
DocResponsesNoNull(c) ==
    O([text \in {StatusText(st) : st \in {x \in DOMAIN c.responses : c.responses[x].kind # "null"}} |->
         O(("description" :> S("Response " \o text))
           @@ ("content" :> JsonContent(c.responses[StatusOf(c, text)])))])

\* The responses object of an operation.
DocResponses(c) ==
    O([text \in {StatusText(st) : st \in DOMAIN c.responses} |->
         IF c.responses[StatusOf(c, text)].kind = "null"
         THEN O("description" :> S("Response " \o text \o " (no content)"))
         ELSE O(("description" :> S("Response " \o text))
                @@ ("content" :> JsonContent(c.responses[StatusOf(c, text)])))])

\* {summary: contract.name || undefined, requestBody, responses, parameters}
Operation(c) ==
    O(("summary" :> (IF c.name = "" THEN Undefined ELSE S(c.name)))
      @@ ("requestBody" :> (IF c.request.body.kind = "none" THEN Undefined
                            ELSE O("content" :> JsonContent(c.request.body))))
      @@ ("responses" :> DocResponses(c))
      @@ ("parameters" :> A(ParametersOf(c.request.query, "query")
                            \o ParametersOf(c.request.headers, "header"))))

\* Mutant of DocPaths: a contract replaces whatever its path held.
RECURSIVE DocPathsReplace(_, _)
DocPathsReplace(paths, list) ==
    IF list = <<>> THEN paths
    ELSE LET c == Contracts[Head(list)]
         IN  DocPathsReplace(O([pt \in Keys(paths) \cup {c.path} |->
                                  IF pt = c.path THEN O(c.method :> Operation(c))
                                  ELSE paths.v[pt]]),
                             Tail(list))

\* paths[path] = paths[path] || {}; paths[path][method] = operation, for every
\* contract of the list in turn.
RECURSIVE DocPaths(_, _)
DocPaths(paths, list) ==
    IF list = <<>> THEN paths
    ELSE LET c == Contracts[Head(list)]
             under == IF c.path \in Keys(paths) THEN paths.v[c.path] ELSE EmptyObject
             withOp == O([m \in Keys(under) \cup {c.method} |->
                            IF m = c.method THEN Operation(c) ELSE under.v[m]])
         IN  DocPaths(O([pt \in Keys(paths) \cup {c.path} |->
                           IF pt = c.path THEN withOp ELSE paths.v[pt]]),
                      Tail(list))

GenerateOpenApi(list, metadata) ==
    O(("openapi" :> S("3.0.3")) @@ ("info" :> metadata) @@ ("paths" :> DocPaths(EmptyObject, list)))

\* The contracts and the metadata an application documents.
DocContracts == {"updateUser", "replaceUser", "deleteUser", "listUsers", "createPost"}
Metadatas ==
    {O(("title" :> S("User API")) @@ ("version" :> S("1.0.0"))),
     O(("title" :> S("User API")) @@ ("version" :> S("1.0.0"))
       @@ ("description" :> S("API for managing users"))),
     O(("title" :> S("Test API")) @@ ("version" :> S("2.0.0"))),
     O(("title" :> S("")) @@ ("version" :> S("")))}

Generate ==
    /\ \E n \in 0..MaxDocLen : \E list \in [1..n -> DocContracts] : \E metadata \in Metadatas :
          doc' = [called |-> TRUE, contracts |-> list, metadata |-> metadata,
                  result |-> GenerateOpenApi(list, metadata)]
    /\ UNCHANGED <<apps, rq, reqs>>

NextDoc == Generate

SpecDoc == Init /\ [][NextDoc]_vars

DocPathsOf == doc.result.v["paths"]
Documented == {Contracts[doc.contracts[j]] : j \in 1..Len(doc.contracts)}
\* The contracts of the call that have the path and method of c.
SameOperation(c) == {d \in Documented : d.path = c.path /\ d.method = c.method}

\* C17: the document has openapi "3.0.3", the given metadata as info, and for every
\* contract of the list an operation at paths[path][method], summarised by a
\* contract of that path and method; contracts with one path and different
\* methods each have their operation under that path, and paths holds nothing else.
C17_Document ==
    doc.called =>
        /\ doc.result.v["openapi"] = S("3.0.3")
        /\ doc.result.v["info"] = doc.metadata
        /\ Keys(DocPathsOf) = {c.path : c \in Documented}
        /\ \A c \in Documented :
              /\ c.method \in Keys(DocPathsOf.v[c.path])
              /\ Keys(DocPathsOf.v[c.path].v[c.method]) =
                    {"summary", "requestBody", "responses", "parameters"}
              /\ DocPathsOf.v[c.path].v[c.method].v["summary"] \in
                    {S(d.name) : d \in SameOperation(c)}
        /\ \A pt \in Keys(DocPathsOf) :
              Keys(DocPathsOf.v[pt]) = {c.method : c \in {d \in Documented : d.path = pt}}

\* updateUser and deleteUser share a path: both operations are under it.
C17_Witness ==
    /\ doc.called /\ doc.contracts = <<"updateUser", "deleteUser">>
    /\ Keys(DocPathsOf) = {"/users/:userId"}
    /\ DocPathsOf.v["/users/:userId"].v["put"].v["summary"] = S("updateUser")
    /\ DocPathsOf.v["/users/:userId"].v["delete"].v["summary"] = S("deleteUser")

\* The operation the document holds at the place of contract c.
OperationAt(c) == DocPathsOf.v[c.path].v[c.method]
\* The operation has a parameter of this name in this place ("query", "header", "path").
HasParameter(op, name, where) ==
    \E j \in 1..Len(op.v["parameters"].v) :
        /\ op.v["parameters"].v[j].v["name"] = S(name)
        /\ op.v["parameters"].v[j].v["in"] = S(where)

\* C18: the operation of a contract describes every request part the contract
\* declares: the body as requestBody, every key of the query, headers and params
\* schemas as a parameter.
C18_AllPartsDescribed ==
    doc.called => \A c \in Documented :
        (SameOperation(c) = {c}) =>
            /\ c.request.body.kind = "object" =>
                  OperationAt(c).v["requestBody"] = O("content" :> JsonContent(c.request.body))
            /\ \A k \in ShapeKeys(c.request.query.shape) : HasParameter(OperationAt(c), k, "query")
            /\ \A k \in ShapeKeys(c.request.headers.shape) :
                  HasParameter(OperationAt(c), LowerCase(k), "header")
            /\ \A k \in ShapeKeys(c.request.params.shape) :
                  \E where \in {"path", "query", "header"} : HasParameter(OperationAt(c), k, where)

\* The name, place and required flag of the j-th parameter of an operation.
ParameterHead(op, j) ==
    LET e == op.v["parameters"].v[j]
    IN  <<e.v["name"], e.v["in"], e.v["required"]>>

\* C19: the parameters of an operation are one entry per key of the query schema,
\* in: "query", then one per key of the headers schema, in: "header" with the name
\* in lower case; required is false exactly for a field whose schema accepts
\* undefined.
C19_Parameters ==
    doc.called => \A c \in Documented :
        (SameOperation(c) = {c}) =>
            LET qs == c.request.query.shape
                hs == c.request.headers.shape
                op == OperationAt(c)
            IN  /\ Len(op.v["parameters"].v) = Len(qs) + Len(hs)
                /\ \A j \in 1..Len(qs) :
                      ParameterHead(op, j) =
                          <<S(qs[j].key), S("query"), B(qs[j].ty # "optional")>>
                /\ \A j \in 1..Len(hs) :
                      ParameterHead(op, Len(qs) + j) =
                          <<S(LowerCase(hs[j].key)), S("header"), B(hs[j].ty # "optional")>>

\* listUsers: limit (optional) and id in the query, then the header X-Api-Key.
C19_Witness ==
    /\ doc.called /\ doc.contracts = <<"listUsers">>
    /\ Len(DocPathsOf.v["/users"].v["get"].v["parameters"].v) = 3
    /\ ParameterHead(DocPathsOf.v["/users"].v["get"], 1) = <<S("limit"), S("query"), B(FALSE)>>
    /\ ParameterHead(DocPathsOf.v["/users"].v["get"], 2) = <<S("id"), S("query"), B(TRUE)>>
    /\ ParameterHead(DocPathsOf.v["/users"].v["get"], 3) = <<S("x-api-key"), S("header"), B(TRUE)>>

\* C20: the responses of an operation have exactly one entry per declared status;
\* for the schema null the entry is {description: "Response <status> (no content)"}
\* without content, for any other schema it has the description "Response <status>"
\* and content["application/json"].schema.
C20_Responses ==
    doc.called => \A c \in Documented :
        (SameOperation(c) = {c}) =>
            LET rs == OperationAt(c).v["responses"]
            IN  /\ Keys(rs) = {StatusText(st) : st \in DOMAIN c.responses}
                /\ Cardinality(Keys(rs)) = Cardinality(DOMAIN c.responses)
                /\ \A st \in DOMAIN c.responses :
                      LET e == rs.v[StatusText(st)]
                      IN  IF c.responses[st].kind = "null"
                          THEN e = O("description" :>
                                       S("Response " \o StatusText(st) \o " (no content)"))
                          ELSE /\ Keys(e) = {"description", "content"}
                               /\ e.v["description"] = S("Response " \o StatusText(st))
                               /\ Keys(e.v["content"]) = {"application/json"}
                               /\ Keys(e.v["content"].v["application/json"]) = {"schema"}
                               /\ e.v["content"].v["application/json"].v["schema"].v["type"]
                                     = S("object")
                               /\ Keys(e.v["content"].v["application/json"].v["schema"].v["properties"])
                                     = ShapeKeys(c.responses[st].shape)

\* listUsers declares 200 and 404 with a schema and 204 with null.
C20_Witness ==
    /\ doc.called /\ doc.contracts = <<"listUsers">>
    /\ Keys(DocPathsOf.v["/users"].v["get"].v["responses"]) = {"200", "204", "404"}
    /\ DocPathsOf.v["/users"].v["get"].v["responses"].v["204"] =
          O("description" :> S("Response 204 (no content)"))
    /\ DocPathsOf.v["/users"].v["get"].v["responses"].v["404"].v["description"] = S("Response 404")

(***************************************************************************)
(* An application that registers its contracts and documents them: the     *)
(* lists given to registerContracts are also given to generateOpenApi.     *)
(***************************************************************************)
\* The application registers its lists on one app, at startup.
RegisterDocumented ==
    /\ rq.phase = "idle"
    /\ RegisterContractsUpTo("A", RegLists, MaxRegisterCalls)

\* The document is generated at startup as well.
GenerateRegistered ==
    /\ rq.phase = "idle"
    /\ \E list \in RegLists :
          doc' = [called |-> TRUE, contracts |-> list,
                  metadata |-> O(("title" :> S("User API")) @@ ("version" :> S("1.0.0"))),
                  result |-> GenerateOpenApi(list,
                                O(("title" :> S("User API")) @@ ("version" :> S("1.0.0"))))]
    /\ UNCHANGED <<apps, rq, reqs>>

NextSync ==
    \/ RegisterDocumented
    \/ GenerateRegistered
    \/ ArriveValid
    \/ MiddlewareWrapper
    \/ MwSuccess
    \/ MwError
    \/ MwSend
    \/ MwThrow
    \/ MwReturn
    \/ MwAfter
    \/ ContractRoute
    \/ ContractAfter

SpecSync == Init /\ [][NextSync]_vars

\* C21: when the list registered on an app is the list that was documented, the
\* contract documented at paths[path][method] is the contract that serves the
\* requests of that method and path, also when two contracts of the list share them.
C21_DocsMatchRoutes ==
    (doc.called /\ Open /\ apps[rq.app].asked = doc.contracts) =>
        OperationAt(TheContract(rq)).v["summary"] = S(rq.contract)

(***************************************************************************)
(* Middleware handlers that do anything the arguments they get allow: call *)
(* next.success and next.error in any number and order, send on res, and   *)
(* call next.success from a callback that runs after they returned.        *)
(***************************************************************************)
MaxDecisions == 2  \* calls of next.success, next.error and sends on res by handlers, per request

Decisions(q) ==
    Cardinality({j \in 1..Len(q.log) : q.log[j].e \in {"success", "error", "mwSend"}})

\* A callback the handler of a layer left behind; it will call next.success(ctx).
LateCall(layer, ctx) == [kind |-> "late", layer |-> layer, ctx |-> ctx]

\* The handler returns and leaves a callback behind.  The callback is queued in
\* front of the wrapper's continuation (a promise callback) or behind it (a timer).
MwHandlerReturnsLate(q, ctx, first) ==
    LET f == Top(q)
        q1 == Pop(Log(q, "mwReturn", f.layer, Undefined))
        after == Cont("mwAfter", f.layer, f.finished, FALSE, NoOutcome)
    IN  IF first THEN Defer(Defer(q1, LateCall(f.layer, ctx)), after)
        ELSE Defer(Defer(q1, after), LateCall(f.layer, ctx))

\* The callback runs: next.success(ctx) of an invocation whose handler has returned.
\* finished is the variable of that invocation; its wrapper reads it if it has not
\* resumed yet.
LateSuccess(q) ==
    LET c == Head(q.micro)
        rest == Tail(q.micro)
        waiting == rest # <<>> /\ rest[1].kind = "mwAfter" /\ rest[1].layer = c.layer
        q1 == [q EXCEPT !.micro = IF waiting
                                   THEN <<[rest[1] EXCEPT !.finished = TRUE]>> \o Tail(rest)
                                   ELSE rest]
        q2 == Log(q1, "success", c.layer, c.ctx)
        q3 == [q2 EXCEPT !.context =
                  Spread(ContextOrEmpty(q), IF c.ctx = Undefined THEN EmptyObject ELSE c.ctx)]
    IN  CallNext(q3, c.layer)

\* The contracts of this part: one middleware in front of replaceUser, two in front
\* of createPost.
AnyLists == {<<"replaceUser", "createPost">>}

StartupAny ==
    /\ apps["A"].calls = 0
    /\ RegisterContractsUpTo("A", AnyLists, MaxRegisterCalls)

\* A request that passes every request schema.
ArriveAny ==
    /\ rq.phase = "idle"
    /\ \E key \in RoutedKeys(apps["A"]) :
          rq' = [Idle EXCEPT !.phase = "open", !.app = "A",
                             !.contract = FirstRoute(apps["A"], key),
                             !.body = ValidBody,
                             !.headers = O(("authorization" :> S("Bearer ABC123"))
                                           @@ ("host" :> S("localhost"))),
                             !.query = O("id" :> S("123")), !.params = O("userId" :> S("3")),
                             !.stack = <<Frame("invoke", 1)>>, !.idx = 1]
    /\ UNCHANGED <<apps, doc, reqs>>

AnyContexts == {Undefined, O(("username" :> S("nidal")) @@ ("dob" :> S("2003")))}

MwSuccessAny ==
    /\ Running("mw") /\ Decisions(rq) < MaxDecisions
    /\ \E ctx \in AnyContexts : rq' = NextSuccess(rq, ctx)
    /\ UNCHANGED <<apps, doc, reqs>>

MwErrorAny ==
    /\ Running("mw") /\ Decisions(rq) < MaxDecisions
    /\ \E e \in MwErrors : rq' = NextError(rq, e.status, e.body)
    /\ UNCHANGED <<apps, doc, reqs>>

MwSendAny ==
    /\ Running("mw") /\ Decisions(rq) < MaxDecisions
    /\ \E e \in MwSends : rq' = MwOwnSend(rq, e.status, e.body)
    /\ UNCHANGED <<apps, doc, reqs>>

MwThrowAny ==
    /\ Running("mw")
    /\ rq' = MwHandlerThrows(rq, Err("Middleware failure"))
    /\ UNCHANGED <<apps, doc, reqs>>

MwReturnLate ==
    /\ Running("mw") /\ Decisions(rq) < MaxDecisions
    /\ \E first \in BOOLEAN :
          rq' = MwHandlerReturnsLate(rq, O("username" :> S("overridden")), first)
    /\ UNCHANGED <<apps, doc, reqs>>

MwLate ==
    /\ Resumed("late")
    /\ rq' = LateSuccess(rq)
    /\ UNCHANGED <<apps, doc, reqs>>

\* What the contract's handler does: a valid result, no result, a throw.
AnyOutcomes ==
    {[k |-> "return", result |-> Result(200, GoodUser), thrown |-> Undefined],
     [k |-> "return", result |-> NoResult, thrown |-> Undefined],
     [k |-> "throw", result |-> NoResult, thrown |-> Err("Handler crash")]}

ContractRouteAny ==
    /\ Running("invoke") /\ Top(rq).layer = NumMiddlewares(rq) + 1
    /\ \E o \in AnyOutcomes : rq' = ContractEnter(rq, o)
    /\ UNCHANGED <<apps, doc, reqs>>

NextAny ==
    \/ StartupAny
    \/ ArriveAny
    \/ MiddlewareWrapper
    \/ MwSuccessAny
    \/ MwErrorAny
    \/ MwSendAny
    \/ MwThrowAny
    \/ MwReturn
    \/ MwReturnLate
    \/ MwLate
    \/ MwAfter
    \/ ContractRouteAny
    \/ ContractAfter

SpecAny == Init /\ [][NextAny]_vars

C23_NextAtMostOnce ==
    Open =>
        /\ \A i \in 1..NumMiddlewares(rq) : Cardinality(EventsAt("next", i)) <= 1
        /\ Cardinality(Events("handler")) <= 1

(***************************************************************************)
(* Progress.  Node runs a running function to its end and then the queued  *)
(* continuations, one after the other; the handlers return or throw.       *)
(***************************************************************************)
Steps ==
    \/ MiddlewareWrapper
    \/ MwThrow
    \/ MwReturn
    \/ MwAfter
    \/ ContractRoute
    \/ ContractAfter

SpecLive == Spec /\ WF_vars(Steps)

\* C24: every request to a registered route eventually receives a response, whatever
\* the validation results, the calls of next.success and next.error and the
\* exceptions are, when every handler returns or throws.
C24_EventuallyAnswered == Open ~> (rq.sent # <<>>)

\* A request whose middleware handler returned without deciding and whose contract
\* handler threw has its response.
C24_Witness ==
    /\ Open /\ ~InFlight
    /\ Events("mwReturn") # {} /\ Events("success") = {}
    /\ \E h \in Events("handler") : rq.log[h].data.outcome.k = "throw"
    /\ Len(rq.sent) = 1 /\ rq.sent[1].status = 500

\* The handler of layer i called neither next.success nor next.error and sent nothing.
Undecided(i) ==
    EventsAt("success", i) \cup EventsAt("error", i) \cup EventsAt("mwSend", i) = {}
\* The wrapper of layer i has resumed after its await.
WrapperResumed(i) ==
    ~\E j \in 1..Len(rq.micro) : rq.micro[j].kind = "mwAfter" /\ rq.micro[j].layer = i
\* The context the handler of layer i was called with.
ContextGiven(i) == rq.log[CHOOSE j \in EventsAt("mwHandler", i) : TRUE].data.context

\* C25: when a middleware handler returned without calling next.success or
\* next.error and without sending, the wrapper calls the next layer (the next
\* middleware or the contract's function), and the context that layer finds is the
\* one the middleware was called with.
C25_ReturnProceeds ==
    Open => \A i \in 1..NumMiddlewares(rq) :
        (EventsAt("mwReturn", i) # {} /\ Undecided(i) /\ WrapperResumed(i)) =>
            /\ \E k \in EventsAt("next", i) :
                  IF k = Len(rq.log)
                  THEN /\ Running("invoke") /\ Top(rq).layer = i + 1
                       /\ ContextOrEmpty(rq) = ContextGiven(i)
                  ELSE /\ rq.log[k + 1].e \in {"mwEnter", "contractEnter"}
                       /\ rq.log[k + 1].layer = i + 1
            /\ \A j \in EventsAt("mwHandler", i + 1) \cup EventsAt("handler", i + 1) :
                  rq.log[j].data.context = ContextGiven(i)

\* Of two middlewares the first passed a context to next.success and the second just
\* returned; the contract's handler was called with the context of the first.
C25_Witness ==
    /\ Open /\ NumMiddlewares(rq) = 2
    /\ EventsAt("success", 1) # {} /\ Keys(SuccessArg(1)) # {}
    /\ EventsAt("mwReturn", 2) # {} /\ Undecided(2)
    /\ \E h \in Events("handler") : rq.log[h].data.context = SuccessArg(1)

\* The step is the throw of a middleware handler.
ThrowStep ==
    Len(rq'.log) = Len(rq.log) + 1 /\ rq'.log[Len(rq'.log)].e = "mwThrow"
\* The response of the call of next.error logged at position k.
ErrorResponse(k) ==
    [by |-> "next.error", status |-> rq.log[k].data.status, body |-> rq.log[k].data.body]

\* C26: when a middleware handler throws after it called next.success or next.error,
\* neither the catch of its wrapper nor the wrapper after its await sends anything or
\* touches the context: the chain has proceeded (next.success), or the response of
\* next.error is the response of the request.
C26_ThrowAfterDecision ==
    [][/\ (Running("mw") /\ Top(rq).finished /\ ThrowStep) =>
            LET i == Top(rq).layer
            IN  /\ rq'.sent = rq.sent /\ rq'.context = rq.context
                /\ EventsAt("success", i) # {} => EventsAt("next", i) # {}
                /\ EventsAt("error", i) # {} =>
                       \E k \in EventsAt("error", i) : rq.sent = <<ErrorResponse(k)>>
       /\ (Resumed("mwAfter") /\ Head(rq.micro).finished) =>
            rq'.sent = rq.sent /\ rq'.log = rq.log /\ rq'.context = rq.context]_vars

\* A middleware handler called next.success and then threw; the contract's handler
\* ran, and its 200 is the only response.
C26_Witness ==
    /\ Open /\ ~InFlight
    /\ \E i \in 1..NumMiddlewares(rq) :
          \E k \in EventsAt("success", i), t \in EventsAt("mwThrow", i) : k < t
    /\ Events("handler") # {}
    /\ Len(rq.sent) = 1 /\ rq.sent[1].status = 200

(***************************************************************************)
(* Two requests at the same time.  Express gives every request its own req *)
(* and res; Node runs one function at a time and resumes the awaiting      *)
(* functions of either request in any order.                               *)
(***************************************************************************)
Other(r) == CHOOSE s \in RequestIds : s # r

\* Mutant of OnRequest: req.context is one object for all requests.
OnRequestSharedContext(rs, r, q) ==
    [s \in RequestIds |-> IF s = r THEN q ELSE [rs[s] EXCEPT !.context = q.context]]

\* What a step of the wrapper or of the route function changes: the req and res of
\* its own call, and nothing of another request.
OnRequest(rs, r, q) == [rs EXCEPT ![r] = q]

RunningIn(r, kind) ==
    reqs[r].phase = "open" /\ reqs[r].stack # <<>> /\ Top(reqs[r]).kind = kind
ResumedIn(r, kind) ==
    /\ reqs[r].phase = "open" /\ \A s \in RequestIds : reqs[s].stack = <<>>
    /\ reqs[r].micro # <<>> /\ Head(reqs[r].micro).kind = kind

TwoStartup ==
    /\ \A r \in RequestIds : reqs[r].phase = "idle"
    /\ RegisterContractsUpTo("A", AnyLists, MaxRegisterCalls)

\* A request arrives while no function runs; it passes every request schema.
TwoArrive ==
    \E r \in RequestIds :
        /\ reqs[r].phase = "idle" /\ reqs[Other(r)].stack = <<>>
        /\ \E key \in RoutedKeys(apps["A"]) :
              reqs' = OnRequest(reqs, r,
                        [Idle EXCEPT !.phase = "open", !.app = "A",
                                     !.contract = FirstRoute(apps["A"], key),
                                     !.body = ValidBody,
                                     !.headers = O(("authorization" :> S("Bearer ABC123"))
                                                   @@ ("host" :> S("localhost"))),
                                     !.query = O("id" :> S("123")),
                                     !.params = O("userId" :> S("3")),
                                     !.stack = <<Frame("invoke", 1)>>, !.idx = 1])
        /\ UNCHANGED <<apps, rq, doc>>

\* What the middlewares of each request pass to next.success.
TwoContexts(r) ==
    IF r = 1 THEN O(("username" :> S("nidal")) @@ ("dob" :> S("2003")))
    ELSE O("username" :> S("overridden"))

TwoWrapper ==
    \E r \in RequestIds :
        /\ RunningIn(r, "invoke") /\ Top(reqs[r]).layer <= NumMiddlewares(reqs[r])
        /\ reqs' = OnRequest(reqs, r, MwWrapperEnter(reqs[r]))
        /\ UNCHANGED <<apps, rq, doc>>

TwoSuccess ==
    \E r \in RequestIds :
        /\ RunningIn(r, "mw") /\ ~Top(reqs[r]).term
        /\ reqs' = OnRequest(reqs, r, NextSuccess(reqs[r], TwoContexts(r)))
        /\ UNCHANGED <<apps, rq, doc>>

TwoError ==
    \E r \in RequestIds :
        /\ RunningIn(r, "mw") /\ ~Top(reqs[r]).term
        /\ \E e \in MwErrors : reqs' = OnRequest(reqs, r, NextError(reqs[r], e.status, e.body))
        /\ UNCHANGED <<apps, rq, doc>>

TwoReturn ==
    \E r \in RequestIds :
        /\ RunningIn(r, "mw")
        /\ reqs' = OnRequest(reqs, r, MwHandlerReturns(reqs[r]))
        /\ UNCHANGED <<apps, rq, doc>>

TwoAfter ==
    \E r \in RequestIds :
        /\ ResumedIn(r, "mwAfter")
        /\ reqs' = OnRequest(reqs, r, MwAfterAwait(reqs[r]))
        /\ UNCHANGED <<apps, rq, doc>>

TwoRoute ==
    \E r \in RequestIds :
        /\ RunningIn(r, "invoke") /\ Top(reqs[r]).layer = NumMiddlewares(reqs[r]) + 1
        /\ \E o \in AnyOutcomes : reqs' = OnRequest(reqs, r, ContractEnter(reqs[r], o))
        /\ UNCHANGED <<apps, rq, doc>>

TwoContractAfter ==
    \E r \in RequestIds :
        /\ ResumedIn(r, "contractAfter")
        /\ reqs' = OnRequest(reqs, r, ContractAfterAwait(reqs[r]))
        /\ UNCHANGED <<apps, rq, doc>>

NextTwo ==
    \/ TwoStartup
    \/ TwoArrive
    \/ TwoWrapper
    \/ TwoSuccess
    \/ TwoError
    \/ TwoReturn
    \/ TwoAfter
    \/ TwoRoute
    \/ TwoContractAfter

SpecTwo == Init /\ [][NextTwo]_vars

\* The merge of what the handlers of one request passed to next.success before
\* position j of its log, in the order of the calls.
RECURSIVE MergedUpTo(_, _)
MergedUpTo(log, j) ==
    IF j = 0 THEN EmptyObject
    ELSE IF log[j].e = "success"
         THEN Spread(MergedUpTo(log, j - 1),
                     IF log[j].data = Undefined THEN EmptyObject ELSE log[j].data)
         ELSE MergedUpTo(log, j - 1)

\* C27: with two requests served in any interleaving, the context every middleware
\* handler and every contract handler is called with is the merge of what the
\* middlewares of its own request passed to next.success before; it is empty for the
\* first handler of a request, and it has no field of the other request.
C27_OwnContextOnly ==
    \A r \in RequestIds : \A j \in 1..Len(reqs[r].log) :
        reqs[r].log[j].e \in {"mwHandler", "handler"} =>
            /\ reqs[r].log[j].data.context = MergedUpTo(reqs[r].log, j - 1)
            /\ (\A k \in 1..(j - 1) : reqs[r].log[k].e # "success") =>
                   reqs[r].log[j].data.context = EmptyObject

\* The middleware of request 2 passed its context while request 1 was waiting for its
\* contract handler; later the contract handler of request 2 was called with the
\* context of request 2, that of request 1 with the context of request 1.
C27_Witness ==
    /\ \A r \in RequestIds :
          /\ reqs[r].phase = "open"
          /\ \E j \in 1..Len(reqs[r].log) :
                reqs[r].log[j].e = "handler" /\ reqs[r].log[j].data.context = TwoContexts(r)
    /\ reqs[1].micro # <<>> /\ Head(reqs[1].micro).kind = "contractAfter"
    /\ reqs[1].sent = <<>> /\ reqs[2].sent # <<>>

\* The result of the handler call logged at h, once the route function has dealt
\* with it.
ReturnedResult(h) == rq.log[h].data.outcome.result
\* The result names a status.
HasStatus(r) == r.defined /\ r.status # 0

\* C28: when the handler returned a status that has no entry in contract.responses,
\* the only response is 500 {error: "No schema defined for status <s>"}; the
\* handler's status and body are not sent.
C28_UndeclaredStatus ==
    Open => \A h \in Events("handler") :
        LET r == ReturnedResult(h)
        IN  (HandlerReturned(h) /\ HasStatus(r)
                /\ r.status \notin DOMAIN TheContract(rq).responses) =>
              /\ Replied(500, ErrorBody("No schema defined for status " \o StatusText(r.status)))
              /\ rq.sent[1].by = "catch"

\* The handler returned {status: 404, body} to a contract that declares 200 and 204.
C28_Witness ==
    /\ Open /\ 404 \notin DOMAIN TheContract(rq).responses
    /\ \E h \in Events("handler") :
          HandlerReturned(h) /\ ReturnedResult(h) = Result(404, GoodUser)
    /\ Replied(500, O("error" :> S("No schema defined for status 404")))

\* C29: when the handler returned no result or a result without a (truthy) status,
\* the only response is 500 {error: "Handler did not return a valid response object
\* with 'status'"}; when it returned a status whose declared schema is not null and
\* no body key, the only response has status 500.
C29_InvalidResult ==
    Open => \A h \in Events("handler") :
        LET r == ReturnedResult(h)
        IN  /\ (HandlerReturned(h) /\ ~HasStatus(r)) =>
                  Replied(500, ErrorBody(
                      "Handler did not return a valid response object with 'status'"))
            /\ (HandlerReturned(h) /\ HasStatus(r) /\ ~r.hasBody
                    /\ r.status \in DOMAIN TheContract(rq).responses
                    /\ TheContract(rq).responses[r.status].kind = "object") =>
                  Len(rq.sent) = 1 /\ rq.sent[1].status = 500

\* The handler returned nothing and the response is the 500 of the catch.
C29_Witness ==
    /\ Open
    /\ \E h \in Events("handler") : HandlerReturned(h) /\ ReturnedResult(h) = NoResult
    /\ Replied(500, O("error" :>
                      S("Handler did not return a valid response object with 'status'")))

\* The handler returned {status: 200} for a status declared with a schema.
C29_WitnessNoBody ==
    /\ Open
    /\ \E h \in Events("handler") : HandlerReturned(h) /\ ReturnedResult(h) = StatusOnly(200)
    /\ Replied(500, O("error" :> S("Response for status 200 must include a body")))

\* C30: a contract without request schemas never answers 400 from its request
\* validation: whatever body, headers, query and params the request has, the route
\* function finds no error and calls the handler with body, headers, query and
\* params all undefined.
C30_NoRequestSchema ==
    (Open /\ TheContract(rq).request = NoRequest) =>
        /\ \A j \in Events("contractEnter") :
              /\ rq.log[j].data = <<>>
              /\ j < Len(rq.log) /\ rq.log[j + 1].e = "handler"
        /\ \A h \in Events("handler") :
              /\ rq.log[h].data.body = Undefined /\ rq.log[h].data.headers = Undefined
              /\ rq.log[h].data.query = Undefined /\ rq.log[h].data.params = Undefined
        /\ \A k \in 1..Len(rq.sent) : rq.sent[k].by # "validation"

\* A request with a body that updateUser would reject reached the handler of
\* getProfile, which got no request part.
C30_Witness ==
    /\ Open /\ rq.contract = "getProfile" /\ rq.body = BadBody
    /\ rq.headers = EmptyObject /\ rq.query = EmptyObject
    /\ \E h \in Events("handler") : rq.log[h].data.body = Undefined
    /\ Len(rq.sent) = 1 /\ rq.sent[1].status = 200
====
